---- MODULE Spec2Model ----
(***************************************************************************)
(* A model of ushio's replay engine (src/src/replay.rs): the URL           *)
(* rewriter, the header mutator, the request executor and the session      *)
(* aggregator; and of its diff engine (src/src/diff.rs): the WAF           *)
(* classifier, the header comparison and the pairing of two sessions.      *)
(*                                                                         *)
(* Encodings used throughout:                                              *)
(*   Option<T>     None is {}, Some(x) is {x}                              *)
(*   Result<T>     Ok(v) is [ok |-> TRUE, val |-> v],                      *)
(*                 Err(e) is [ok |-> FALSE, err |-> e]                     *)
(*   Vec<T>        a sequence; Rust index i is TLA+ index i + 1            *)
(*   header name   a sequence of one-character strings, so that case       *)
(*                 folding is computed character by character              *)
(*   URL text      a record of the syntactic parts of the string           *)
(*                 (scheme, host, port, path, query, fragment), each       *)
(*                 part as written; Url::parse normalises it               *)
(***************************************************************************)
EXTENDS Integers, Sequences, FiniteSets, TLC

VARIABLES
    requests,           \* replay: the capture, &[CapturedRequest]
    target,             \* replay: the target string
    config,             \* replay: ReplayConfig
    pc,                 \* replay: position in replay / replay_single
    index,              \* replay: the loop index of `for (index, request)`
    cur,                \* replay_single: its locals across the awaits
    results,            \* replay: Vec<ReplayResult>
    successful,         \* replay: tally
    failed,             \* replay: tally
    status_mismatches,  \* replay: tally
    returned,           \* replay: Option<Result<ReplaySession>>, {} while running
    inflight,           \* network: indices of requests sent and not yet settled
    sent,               \* network: every request handed to the transport, in order
    fn,                 \* pure-function harness: the function applied
    args,               \* pure-function harness: its arguments
    ret                 \* pure-function harness: Option of its return value

vars == << requests, target, config, pc, index, cur, results, successful, failed,
           status_mismatches, returned, inflight, sent, fn, args, ret >>

replayVars == << requests, target, config, pc, index, cur, results, successful,
                 failed, status_mismatches, returned, inflight, sent >>

harnessVars == << fn, args, ret >>

(***************************************************************************)
(* Bounds of the model.                                                    *)
(***************************************************************************)
MaxRequests == 2

MaxHeaders == 2

MaxMutations == 2

(***************************************************************************)
(* Option and Result.                                                      *)
(***************************************************************************)
None == {}

Some(x) == {x}

Unwrap(o) == CHOOSE x \in o : TRUE

Ok(v) == [ok |-> TRUE, val |-> v]

Err(e) == [ok |-> FALSE, err |-> e]

SeqsUpTo(S, n) == UNION { [1..k -> S] : k \in 0..n }

(***************************************************************************)
(* URLs: the part of the url crate that rewrite_url drives.                *)
(*                                                                         *)
(* The scheme universe is http and https (special schemes), foo (a         *)
(* non-special scheme) and localhost (what Url::parse makes of the text    *)
(* "localhost:8080": scheme "localhost", no authority, opaque path         *)
(* "8080").  The file scheme is left out.                                  *)
(***************************************************************************)
SpecialSchemes == {"http", "https"}

is_special(scheme) == scheme \in SpecialSchemes

default_port(scheme) ==
    CASE scheme = "http"  -> Some(80)
      [] scheme = "https" -> Some(443)
      [] OTHER            -> None

\* Paths of the universe that begin with '/'.
SlashPaths == {"/", "/api/users", "/login"}

StartsWithSlash(path) == path \in SlashPaths

\* Url::parse(text): a relative reference has no base and is rejected; a
\* special scheme needs a non-empty host; a port equal to the scheme's
\* default is dropped and an empty path of a special URL becomes "/".
UrlParse(text) ==
    IF text.scheme = None
    THEN Err("relative URL without a base")
    ELSE LET scheme == Unwrap(text.scheme) IN
         IF is_special(scheme) /\ text.host = None
         THEN Err("empty host")
         ELSE Ok([ scheme   |-> scheme,
                   host     |-> text.host,
                   port     |-> IF text.port = default_port(scheme)
                                THEN None ELSE text.port,
                   path     |-> IF is_special(scheme) /\ text.path = ""
                                THEN "/" ELSE text.path,
                   query    |-> text.query,
                   fragment |-> text.fragment ])

\* Url::to_string: the serialization, as URL text.
UrlToString(url) ==
    [ scheme   |-> Some(url.scheme),
      host     |-> url.host,
      port     |-> url.port,
      path     |-> url.path,
      query    |-> url.query,
      fragment |-> url.fragment ]

has_host(url) == url.host # None

cannot_be_a_base(url) == url.host = None /\ ~StartsWithSlash(url.path)

\* Url::set_port: refused on a URL without host; a default port is dropped.
set_port(url, port) ==
    IF ~has_host(url)
    THEN Err("cannot have a port")
    ELSE Ok([url EXCEPT !.port = IF port # None /\ port = default_port(url.scheme)
                                 THEN None ELSE port])

\* Url::set_scheme: refused between a special and a non-special scheme, and
\* for a special scheme on a URL without host; afterwards the port is
\* renormalised against the new scheme's default.
set_scheme(url, scheme) ==
    IF is_special(scheme) # is_special(url.scheme)
    THEN Err("special and non-special scheme")
    ELSE IF ~has_host(url) /\ is_special(scheme)
    THEN Err("special scheme without host")
    ELSE LET changed == [url EXCEPT !.scheme = scheme]
             reset   == set_port(changed, changed.port)
         IN  Ok(IF reset.ok THEN reset.val ELSE changed)

\* Url::set_host: refused on a cannot-be-a-base URL; a special URL cannot
\* lose its host; removing the host of a non-special URL also removes its
\* port and leaves at least the path "/".
set_host(url, host) ==
    IF cannot_be_a_base(url)
    THEN Err("set host on cannot-be-a-base URL")
    ELSE IF host # None
    THEN Ok([url EXCEPT !.host = host])
    ELSE IF ~has_host(url)
    THEN Ok(url)
    ELSE IF is_special(url.scheme)
    THEN Err("empty host")
    ELSE Ok([url EXCEPT !.host = None, !.port = None,
                        !.path = IF url.path = "" THEN "/" ELSE url.path])

\* `setter(..).ok();` : the setter's error is discarded and the URL is
\* left as it was.
OkOrKeep(result, url) == IF result.ok THEN result.val ELSE url

\* fn rewrite_url(original: &str, target: &Url) -> Result<String>
rewrite_url(original, target_url) ==
    LET parsed == UrlParse(original) IN
    IF ~parsed.ok
    THEN Err("Invalid original URL")
    ELSE LET u0 == parsed.val
             u1 == OkOrKeep(set_scheme(u0, target_url.scheme), u0)
             u2 == OkOrKeep(set_host(u1, target_url.host), u1)
             u3 == OkOrKeep(set_port(u2, target_url.port), u2)
         IN  Ok(UrlToString(u3))

(***************************************************************************)
(* Header names and case folding.                                          *)
(*                                                                         *)
(* A name is a sequence of characters.  KelvinSign stands for U+212A,      *)
(* the one non-ASCII character of the universe: str::to_lowercase folds    *)
(* it to "k", eq_ignore_ascii_case leaves it alone.                        *)
(***************************************************************************)
UpperCase == << "A", "B", "C", "D", "E", "F", "G", "H", "I", "J", "K", "L", "M",
                "N", "O", "P", "Q", "R", "S", "T", "U", "V", "W", "X", "Y", "Z" >>

LowerCase == << "a", "b", "c", "d", "e", "f", "g", "h", "i", "j", "k", "l", "m",
                "n", "o", "p", "q", "r", "s", "t", "u", "v", "w", "x", "y", "z" >>

KelvinSign == "U+212A"

\* u8::to_ascii_lowercase
to_ascii_lowercase(c) ==
    IF \E i \in DOMAIN UpperCase : UpperCase[i] = c
    THEN LowerCase[CHOOSE i \in DOMAIN UpperCase : UpperCase[i] = c]
    ELSE c

\* char::to_lowercase
char_to_lowercase(c) == IF c = KelvinSign THEN "k" ELSE to_ascii_lowercase(c)

\* str::to_lowercase
to_lowercase(name) == [i \in DOMAIN name |-> char_to_lowercase(name[i])]

\* str::eq_ignore_ascii_case
eq_ignore_ascii_case(a, b) ==
    /\ Len(a) = Len(b)
    /\ \A i \in DOMAIN a : to_ascii_lowercase(a[i]) = to_ascii_lowercase(b[i])

NameCookie == << "c", "o", "o", "k", "i", "e" >>

NameHost == << "h", "o", "s", "t" >>

NameContentLength == << "c", "o", "n", "t", "e", "n", "t", "-",
                         "l", "e", "n", "g", "t", "h" >>

(***************************************************************************)
(* The header mutator.  A header and a mutation are pairs <<name, value>>. *)
(***************************************************************************)
\* The closure of the filter in apply_mutations: TRUE keeps the header.
HeaderKept(header, strip_cookies) ==
    LET name_lower == to_lowercase(header[1]) IN
    /\ ~(strip_cookies /\ name_lower = NameCookie)
    /\ name_lower # NameHost
    /\ name_lower # NameContentLength

\* Vec::retain(|(n, _)| !n.eq_ignore_ascii_case(name))
RemoveHeader(result, name) ==
    SelectSeq(result, LAMBDA h : ~eq_ignore_ascii_case(h[1], name))

\* Iterator::position(|(n, _)| n.eq_ignore_ascii_case(name)), 1-based; 0 is None
HeaderPosition(result, name) ==
    LET hits == { i \in DOMAIN result : eq_ignore_ascii_case(result[i][1], name) }
    IN  IF hits = {} THEN 0
        ELSE CHOOSE i \in hits : \A j \in hits : i <= j

\* A mutant of ApplyMutation that pushes every non-empty mutation and never
\* replaces an existing header.
ApplyMutationAlwaysPushes(result, mutation) ==
    LET name  == mutation[1]
        value == mutation[2]
    IN  IF value = ""
        THEN RemoveHeader(result, name)
        ELSE Append(result, << name, value >>)

\* One turn of `for (name, value) in mutations`.
ApplyMutation(result, mutation) ==
    LET name  == mutation[1]
        value == mutation[2]
        pos   == HeaderPosition(result, name)
    IN  IF value = ""
        THEN RemoveHeader(result, name)
        ELSE IF pos # 0
        THEN [result EXCEPT ![pos] = << name, value >>]
        ELSE Append(result, << name, value >>)

RECURSIVE ApplyMutations(_, _)
ApplyMutations(result, mutations) ==
    IF mutations = << >>
    THEN result
    ELSE ApplyMutations(ApplyMutation(result, Head(mutations)), Tail(mutations))

\* A mutant of apply_mutations whose filter forgets the strip_cookies test.
apply_mutationsKeepCookies(headers, mutations, strip_cookies) ==
    ApplyMutations(SelectSeq(headers, LAMBDA h : HeaderKept(h, FALSE)), mutations)

\* fn apply_mutations(headers, mutations, strip_cookies) -> Vec<(String, String)>
apply_mutations(headers, mutations, strip_cookies) ==
    ApplyMutations(SelectSeq(headers, LAMBDA h : HeaderKept(h, strip_cookies)),
                   mutations)

(***************************************************************************)
(* The request executor's fallible conversions.                            *)
(***************************************************************************)
\* Characters an HTTP token (a header name) may hold, within the universe.
TokenChars ==
    { UpperCase[i] : i \in DOMAIN UpperCase } \cup
    { LowerCase[i] : i \in DOMAIN LowerCase } \cup {"-"}

\* HeaderName::from_str: a non-empty token, stored in lower case.
HeaderNameParse(name) ==
    IF name # << >> /\ \A i \in DOMAIN name : name[i] \in TokenChars
    THEN Ok([i \in DOMAIN name |-> to_ascii_lowercase(name[i])])
    ELSE Err("invalid HTTP header name")

\* Header values of the universe that HeaderValue::from_str rejects
\* (a value holding a line break).
InvalidHeaderValues == {"a<LF>b"}

\* Response header values of the universe that HeaderValue::to_str rejects
\* (bytes outside visible ASCII).
OpaqueHeaderValues == {"<0xFF>"}

\* Method strings of the universe that Method::from_str rejects (the empty
\* string, a string holding a space).
InvalidMethods == {"", "GE T"}

MethodParse(method) ==
    IF method \in InvalidMethods THEN Err("Invalid HTTP method") ELSE Ok(method)

\* HeaderMap::insert: the entry of that name is replaced.  The map is a set
\* of <<name, value>> pairs with one pair per name.
HeaderMapInsert(map, name, value) ==
    { e \in map : e[1] # name } \cup { << name, value >> }

RECURSIVE BuildHeaderMapFrom(_, _)
BuildHeaderMapFrom(map, headers) ==
    IF headers = << >>
    THEN Ok(map)
    ELSE LET header_name == HeaderNameParse(Head(headers)[1]) IN
         IF ~header_name.ok
         THEN Err("Invalid header name")
         ELSE IF Head(headers)[2] \in InvalidHeaderValues
         THEN Err("Invalid header value")
         ELSE BuildHeaderMapFrom(
                  HeaderMapInsert(map, header_name.val, Head(headers)[2]),
                  Tail(headers))

\* fn build_header_map(headers) -> Result<HeaderMap>
build_header_map(headers) == BuildHeaderMapFrom({}, headers)

\* replay_single up to `req.send()`: the request handed to the transport,
\* or the error of the first `?` that fails.
PrepareRequest(request, target_url, cfg) ==
    LET url        == rewrite_url(request.url, target_url)
        headers    == apply_mutations(request.headers, cfg.header_mutations,
                                      cfg.strip_cookies)
        header_map == build_header_map(headers)
        method     == MethodParse(request.method)
    IN  IF ~url.ok THEN Err(url.err)
        ELSE IF ~header_map.ok THEN Err(header_map.err)
        ELSE IF ~method.ok THEN Err(method.err)
        ELSE Ok([ method  |-> method.val,
                  url     |-> url.val,
                  headers |-> header_map.val,
                  body    |-> request.body ])

\* `.map(|(k, v)| (k.to_string(), v.to_str().unwrap_or("").to_string()))`
ResponseHeaderList(raw) ==
    [ i \in DOMAIN raw |->
        << raw[i][1], IF raw[i][2] \in OpaqueHeaderValues THEN "" ELSE raw[i][2] >> ]

\* A mutant of StatusMatch: `.unwrap_or(false)`.
StatusMatchDefaultFalse(expected_status, status) ==
    IF expected_status = None THEN FALSE ELSE Unwrap(expected_status) = status

\* The status_match of replay_single.
StatusMatch(expected_status, status) ==
    IF expected_status = None THEN TRUE ELSE Unwrap(expected_status) = status

\* A mutant of SuccessResult that numbers the requests from 1.
SuccessResultOneBased(request, idx, locals, body_size) ==
    [ request_index   |-> idx + 1,
      method          |-> request.method,
      url             |-> locals.url,
      status          |-> locals.status,
      headers         |-> locals.response_headers,
      body_size       |-> body_size,
      duration_ms     |-> locals.duration_ms,
      expected_status |-> request.expected_status,
      status_match    |-> IF request.expected_status = None THEN TRUE
                          ELSE Unwrap(request.expected_status) = locals.status,
      error           |-> None ]

\* The Ok(ReplayResult { .. }) that ends replay_single.
SuccessResult(request, idx, locals, body_size) ==
    [ request_index   |-> idx,
      method          |-> request.method,
      url             |-> locals.url,
      status          |-> locals.status,
      headers         |-> locals.response_headers,
      body_size       |-> body_size,
      duration_ms     |-> locals.duration_ms,
      expected_status |-> request.expected_status,
      status_match    |-> StatusMatch(request.expected_status, locals.status),
      error           |-> None ]

\* The ReplayResult that replay builds from an Err of replay_single.
FailureResult(request, idx, target_url, e) ==
    LET rewritten == rewrite_url(request.url, target_url) IN
    [ request_index   |-> idx,
      method          |-> request.method,
      url             |-> IF rewritten.ok THEN rewritten.val ELSE request.url,
      status          |-> 0,
      headers         |-> << >>,
      body_size       |-> 0,
      duration_ms     |-> 0,
      expected_status |-> request.expected_status,
      status_match    |-> FALSE,
      error           |-> Some(e) ]

(***************************************************************************)
(* The inputs replay is run on.                                            *)
(***************************************************************************)
UrlText(scheme, hostname, port, path, query, fragment) ==
    [ scheme |-> scheme, host |-> hostname, port |-> port, path |-> path,
      query |-> query, fragment |-> fragment ]

\* "https://prod.example.com/api/users?q=test"
UrlProdUsers ==
    UrlText(Some("https"), Some("prod.example.com"), None, "/api/users",
            Some("q=test"), None)

\* "http://prod.example.com:8080/login"
UrlProdLogin ==
    UrlText(Some("http"), Some("prod.example.com"), Some(8080), "/login", None, None)

\* "/api/users", a relative reference
UrlRelative == UrlText(None, None, None, "/api/users", None, None)

\* "https://staging.example.com"
TargetStaging ==
    UrlText(Some("https"), Some("staging.example.com"), None, "", None, None)

\* "https://staging.example.com:8443"
TargetStagingPort ==
    UrlText(Some("https"), Some("staging.example.com"), Some(8443), "", None, None)

\* "staging.example.com", a relative reference
TargetNoScheme == UrlText(None, None, None, "staging.example.com", None, None)

\* "localhost:8080", which Url::parse reads as scheme "localhost", path "8080"
TargetLocalhost == UrlText(Some("localhost"), None, None, "8080", None, None)

SampleTargets == { TargetStaging, TargetStagingPort, TargetNoScheme, TargetLocalhost }

NameCookieCapital == << "C", "o", "o", "k", "i", "e" >>

NameHostCapital == << "H", "o", "s", "t" >>

NameXDebug == << "X", "-", "D", "e", "b", "u", "g" >>

NameWithSpace == << "X", " ", "D" >>

CapturedRequest(method, url, headers, body, expected_status) ==
    [ method |-> method, url |-> url, headers |-> headers, body |-> body,
      expected_status |-> expected_status ]

SampleRequests ==
    { CapturedRequest("GET", UrlProdUsers,
                      << << NameHostCapital, "prod.example.com" >>,
                         << NameCookieCapital, "session=abc123" >> >>,
                      None, Some(200)),
      CapturedRequest("POST", UrlProdLogin,
                      << << NameXDebug, "true" >> >>, Some("{}"), None),
      CapturedRequest("GET", UrlRelative, << >>, None, None),
      CapturedRequest("GE T", UrlProdUsers, << >>, None, Some(403)),
      CapturedRequest("GET", UrlProdLogin,
                      << << NameWithSpace, "1" >> >>, None, Some(200)) }

\* ReplayConfig::default()
DefaultConfig ==
    [ timeout |-> 30, concurrency |-> 1, header_mutations |-> << >>,
      strip_cookies |-> FALSE ]

SampleConfigs ==
    { DefaultConfig,
      [ DefaultConfig EXCEPT !.header_mutations = << << NameXDebug, "" >> >>,
                             !.strip_cookies = TRUE ] }

\* What the network may answer.
Statuses == {200, 403}

ResponseHeaders ==
    { << >>,
      << << << "s", "e", "r", "v", "e", "r" >>, "<0xFF>" >>,
         << << "x", "-", "w", "a", "f", "-", "r", "u", "l", "e" >>, "942100" >> >> }

BodySizes == {0, 512}

Durations == {12}

Timestamps == {"t1", "t2"}

(***************************************************************************)
(* replay and replay_single as a state machine.                            *)
(*                                                                         *)
(* pc: "start"  replay has been called                                     *)
(*     "loop"   at the head of `for (index, request)`                      *)
(*     "send"   replay_single awaits req.send()                            *)
(*     "bytes"  replay_single awaits response.bytes()                      *)
(*     "done"   replay has returned                                        *)
(*     "idle"   replay is not running (the pure-function harness)          *)
(***************************************************************************)
NoLocals == << >>

target_url == UrlParse(target).val

InitReplay ==
    /\ requests \in SeqsUpTo(SampleRequests, MaxRequests)
    /\ target \in SampleTargets
    /\ config \in SampleConfigs
    /\ pc = "start"
    /\ index = 0
    /\ cur = NoLocals
    /\ results = << >>
    /\ successful = 0
    /\ failed = 0
    /\ status_mismatches = 0
    /\ returned = None
    /\ inflight = {}
    /\ sent = << >>

Init ==
    /\ InitReplay
    /\ fn = "replay"
    /\ args = << >>
    /\ ret = None

\* A mutant of Start that answers an unparseable target with an empty session.
StartEmptySession ==
    /\ pc = "start"
    /\ UNCHANGED harnessVars
    /\ UNCHANGED << requests, target, config, index, cur, results, successful,
                    failed, status_mismatches, inflight, sent >>
    /\ IF ~UrlParse(target).ok
       THEN /\ returned' = Some(Ok([ target            |-> target,
                                     timestamp         |-> "t1",
                                     total_requests    |-> 0,
                                     successful        |-> 0,
                                     failed            |-> 0,
                                     status_mismatches |-> 0,
                                     results           |-> << >> ]))
            /\ pc' = "done"
       ELSE \E built \in BOOLEAN :
              IF built
              THEN /\ returned' = returned
                   /\ pc' = "loop"
              ELSE /\ returned' = Some(Err("Failed to build HTTP client"))
                   /\ pc' = "done"

\* Lines 66-78: the target is parsed, the client built, the tallies zeroed.
\* ClientBuilder::build can fail (no TLS backend, no resolver configuration).
Start ==
    /\ pc = "start"
    /\ UNCHANGED harnessVars
    /\ UNCHANGED << requests, target, config, index, cur, results, successful,
                    failed, status_mismatches, inflight, sent >>
    /\ IF ~UrlParse(target).ok
       THEN /\ returned' = Some(Err("Invalid target URL"))
            /\ pc' = "done"
       ELSE \E built \in BOOLEAN :
              IF built
              THEN /\ returned' = returned
                   /\ pc' = "loop"
              ELSE /\ returned' = Some(Err("Failed to build HTTP client"))
                   /\ pc' = "done"

\* A mutant of Tally whose Err(_) arm forgets `failed += 1`.
TallyForgetsErr(result, tallies) ==
    IF result.ok
    THEN IF result.val.error # None
         THEN [ tallies EXCEPT !.failed = @ + 1 ]
         ELSE [ tallies EXCEPT
                  !.successful = @ + 1,
                  !.status_mismatches =
                      IF ~result.val.status_match THEN @ + 1 ELSE @ ]
    ELSE tallies

\* A mutant of Tally that counts a failed request as a status mismatch too.
TallyMismatchOnFailure(result, tallies) ==
    IF result.ok /\ result.val.error = None
    THEN [ tallies EXCEPT
             !.successful = @ + 1,
             !.status_mismatches = IF ~result.val.status_match THEN @ + 1 ELSE @ ]
    ELSE [ tallies EXCEPT !.failed = @ + 1, !.status_mismatches = @ + 1 ]

\* Lines 84-98: `match &result`.
Tally(result, tallies) ==
    IF result.ok
    THEN IF result.val.error # None
         THEN [ tallies EXCEPT !.failed = @ + 1 ]
         ELSE [ tallies EXCEPT
                  !.successful = @ + 1,
                  !.status_mismatches =
                      IF ~result.val.status_match THEN @ + 1 ELSE @ ]
    ELSE [ tallies EXCEPT !.failed = @ + 1 ]

\* Lines 100-111: `result.unwrap_or_else(..)`.
UnwrapOrFailure(result, request, idx) ==
    IF result.ok
    THEN result.val
    ELSE FailureResult(request, idx, target_url, result.err)

\* Lines 84-112: the rest of the loop body once replay_single has returned
\* `result`; the loop moves to the next index.
RecordResult(result) ==
    LET tallies == Tally(result, [ successful        |-> successful,
                                   failed            |-> failed,
                                   status_mismatches |-> status_mismatches ])
    IN  /\ successful' = tallies.successful
        /\ failed' = tallies.failed
        /\ status_mismatches' = tallies.status_mismatches
        /\ results' = Append(results, UnwrapOrFailure(result, requests[index + 1], index))
        /\ index' = index + 1
        /\ cur' = NoLocals
        /\ pc' = "loop"

\* A mutant of Issue that propagates the error of replay_single (`.await?`).
IssueAbortsOnError ==
    /\ pc = "loop"
    /\ UNCHANGED harnessVars
    /\ index < Len(requests)
    /\ UNCHANGED << requests, target, config >>
    /\ LET prepared == PrepareRequest(requests[index + 1], target_url, config) IN
       IF prepared.ok
       THEN /\ sent' = Append(sent, [ index |-> index, request |-> prepared.val ])
            /\ inflight' = inflight \cup {index}
            /\ cur' = [ url |-> prepared.val.url ]
            /\ pc' = "send"
            /\ returned' = returned
            /\ UNCHANGED << index, results, successful, failed, status_mismatches >>
       ELSE /\ returned' = Some(Err(prepared.err))
            /\ pc' = "done"
            /\ UNCHANGED << index, cur, results, successful, failed,
                            status_mismatches, inflight, sent >>

\* Lines 81-82 and 134-151: the next request is taken; replay_single either
\* fails before anything is sent, or hands the request to the transport.
Issue ==
    /\ pc = "loop"
    /\ UNCHANGED harnessVars
    /\ index < Len(requests)
    /\ UNCHANGED << requests, target, config, returned >>
    /\ LET prepared == PrepareRequest(requests[index + 1], target_url, config) IN
       IF prepared.ok
       THEN /\ sent' = Append(sent, [ index |-> index, request |-> prepared.val ])
            /\ inflight' = inflight \cup {index}
            /\ cur' = [ url |-> prepared.val.url ]
            /\ pc' = "send"
            /\ UNCHANGED << index, results, successful, failed, status_mismatches >>
       ELSE /\ RecordResult(Err(prepared.err))
            /\ UNCHANGED << inflight, sent >>

\* A mutant of SendFails that tries the same request again.
SendFailsRetry ==
    /\ pc = "send"
    /\ UNCHANGED harnessVars
    /\ inflight' = inflight \ {index}
    /\ cur' = NoLocals
    /\ pc' = "loop"
    /\ UNCHANGED << requests, target, config, index, results, successful, failed,
                    status_mismatches, returned, sent >>

\* Line 151: send() fails (connection, TLS, timeout).
SendFails ==
    /\ pc = "send"
    /\ UNCHANGED harnessVars
    /\ inflight' = inflight \ {index}
    /\ RecordResult(Err("Request failed"))
    /\ UNCHANGED << requests, target, config, returned, sent >>

\* Lines 151-159: the response head arrives.
ResponseArrives ==
    /\ pc = "send"
    /\ UNCHANGED harnessVars
    /\ \E status \in Statuses, raw \in ResponseHeaders, duration \in Durations :
         cur' = [ url              |-> cur.url,
                  status           |-> status,
                  response_headers |-> ResponseHeaderList(raw),
                  duration_ms      |-> duration ]
    /\ pc' = "bytes"
    /\ UNCHANGED << requests, target, config, index, results, successful, failed,
                    status_mismatches, returned, inflight, sent >>

\* A mutant of BodyFails that propagates the error out of replay.
BodyFailsAborts ==
    /\ pc = "bytes"
    /\ UNCHANGED harnessVars
    /\ inflight' = inflight \ {index}
    /\ returned' = Some(Err("Failed to read response body"))
    /\ pc' = "done"
    /\ UNCHANGED << requests, target, config, index, cur, results, successful,
                    failed, status_mismatches, sent >>

\* Line 161: reading the body fails.
BodyFails ==
    /\ pc = "bytes"
    /\ UNCHANGED harnessVars
    /\ inflight' = inflight \ {index}
    /\ RecordResult(Err("Failed to read response body"))
    /\ UNCHANGED << requests, target, config, returned, sent >>

\* Lines 161-180: the body is read and replay_single returns Ok.
BodyRead ==
    /\ pc = "bytes"
    /\ UNCHANGED harnessVars
    /\ inflight' = inflight \ {index}
    /\ \E body_size \in BodySizes :
         RecordResult(Ok(SuccessResult(requests[index + 1], index, cur, body_size)))
    /\ UNCHANGED << requests, target, config, returned, sent >>

\* Lines 114-122: the loop is over and the session is returned.
Finish ==
    /\ pc = "loop"
    /\ UNCHANGED harnessVars
    /\ index = Len(requests)
    /\ \E timestamp \in Timestamps :
         returned' = Some(Ok([ target            |-> target,
                               timestamp         |-> timestamp,
                               total_requests    |-> Len(requests),
                               successful        |-> successful,
                               failed            |-> failed,
                               status_mismatches |-> status_mismatches,
                               results           |-> results ]))
    /\ pc' = "done"
    /\ UNCHANGED << requests, target, config, index, cur, results, successful,
                    failed, status_mismatches, inflight, sent >>

Next ==
    \/ Start
    \/ Issue
    \/ SendFails
    \/ ResponseArrives
    \/ BodyFails
    \/ BodyRead
    \/ Finish

Spec == Init /\ [][Next]_vars

(***************************************************************************)
(* The pure functions on their own: rewrite_url and apply_mutations are    *)
(* applied once to arguments drawn from a bounded universe.                *)
(***************************************************************************)
IdleReplay ==
    /\ requests = << >>
    /\ target = TargetStaging
    /\ config = DefaultConfig
    /\ pc = "idle"
    /\ index = 0
    /\ cur = NoLocals
    /\ results = << >>
    /\ successful = 0
    /\ failed = 0
    /\ status_mismatches = 0
    /\ returned = None
    /\ inflight = {}
    /\ sent = << >>

\* URL texts of captured requests: http and https URLs as a capture holds
\* them, and relative references.
OriginalTexts ==
    { UrlText(scheme, Some("prod.example.com"), port, path, query, fragment) :
        scheme \in { Some("http"), Some("https") },
        port \in { None, Some(443), Some(8080) },
        path \in { "", "/api/users" },
        query \in { None, Some("q=test") },
        fragment \in { None, Some("top") } }
    \cup { UrlRelative }

\* URL texts given as target: http and https bases, "foo://host[:port]" and
\* "localhost:8080", and a relative reference.
TargetTexts ==
    { UrlText(scheme, Some("staging.example.com"), port, path, None, None) :
        scheme \in { Some("http"), Some("https"), Some("foo") },
        port \in { None, Some(443), Some(8443) },
        path \in { "", "/api/users" } }
    \cup { TargetLocalhost, TargetNoScheme }

\* The &Url values replay passes to rewrite_url: parsed targets (line 66).
TargetUrls == { UrlParse(text).val : text \in { t \in TargetTexts : UrlParse(t).ok } }

InitRewrite ==
    /\ IdleReplay
    /\ fn = "rewrite_url"
    /\ args \in [ original : OriginalTexts, target : TargetUrls ]
    /\ ret = None

CallRewrite ==
    /\ fn = "rewrite_url"
    /\ ret = None
    /\ ret' = Some(rewrite_url(args.original, args.target))
    /\ UNCHANGED << fn, args >>
    /\ UNCHANGED replayVars

NextRewrite == CallRewrite

SpecRewrite == InitRewrite /\ [][NextRewrite]_vars

NameCookieKelvin == << "C", "o", "o", KelvinSign, "i", "e" >>

HeaderNames ==
    { NameCookieCapital, NameCookie, NameCookieKelvin, NameHostCapital, NameXDebug }

HeaderPairs == { << name, "true" >> : name \in HeaderNames }

MutationPairs ==
    { << name, value >> : name \in { NameCookieCapital, NameCookie, NameXDebug },
                          value \in { "", "1" } }

InitMutate ==
    /\ IdleReplay
    /\ fn = "apply_mutations"
    /\ args \in [ headers       : SeqsUpTo(HeaderPairs, MaxHeaders),
                  mutations     : SeqsUpTo(MutationPairs, MaxMutations),
                  strip_cookies : BOOLEAN ]
    /\ ret = None

CallMutate ==
    /\ fn = "apply_mutations"
    /\ ret = None
    /\ ret' = Some(apply_mutations(args.headers, args.mutations, args.strip_cookies))
    /\ UNCHANGED << fn, args >>
    /\ UNCHANGED replayVars

NextMutate == CallMutate

SpecMutate == InitMutate /\ [][NextMutate]_vars

(***************************************************************************)
(* Properties of the replay engine.                                        *)
(***************************************************************************)
SessionReturned == returned # None /\ Unwrap(returned).ok

\* The ReplaySession replay returned.
Session == Unwrap(returned).val

FailureReturned == returned # None /\ ~Unwrap(returned).ok

\* The indices of the requests handed to the transport.
SentIndices == { sent[k].index : k \in DOMAIN sent }

\* A captured request that replay_single rejects without sending it.
CaptureError(request) ==
    \/ ~UrlParse(request.url).ok
    \/ ~MethodParse(request.method).ok

HasError(result) == result.error # None

\* C1: every session replay returns has as many results as total_requests
\* says, which is the number of captured requests, and successful plus
\* failed is total_requests.
C1_SessionCounts ==
    SessionReturned =>
        /\ Len(Session.results) = Session.total_requests
        /\ Session.total_requests = Len(requests)
        /\ Session.successful + Session.failed = Session.total_requests

\* A session of two requests, one succeeded and one failed.
C1_Witness ==
    /\ SessionReturned
    /\ Session.total_requests = 2
    /\ Session.successful = 1
    /\ Session.failed = 1

\* C2: in every session replay returns, results[i] carries request_index i
\* and the method and expected status of the i-th captured request, whether
\* that request succeeded or failed.
C2_ResultsIndexAligned ==
    SessionReturned =>
        /\ Len(Session.results) = Len(requests)
        /\ \A i \in DOMAIN Session.results :
             /\ Session.results[i].request_index = i - 1
             /\ Session.results[i].method = requests[i].method
             /\ Session.results[i].expected_status = requests[i].expected_status

\* A session whose first request failed and whose second, a different
\* request, succeeded.
C2_Witness ==
    /\ SessionReturned
    /\ Len(Session.results) = 2
    /\ HasError(Session.results[1])
    /\ ~HasError(Session.results[2])
    /\ requests[1].method # requests[2].method

\* C3: at most one request is in flight; a request is handed to the
\* transport only once the results of all earlier requests are recorded,
\* and no request is handed to the transport twice.
C3_OneInFlightNoRetry ==
    /\ Cardinality(inflight) <= 1
    /\ \A i \in inflight : Len(results) = i
    /\ \A k \in DOMAIN sent : sent[k].index <= Len(results)
    /\ \A k, l \in DOMAIN sent : sent[k].index = sent[l].index => k = l

\* The second request is in flight after the first one was sent and failed.
C3_Witness ==
    /\ Len(sent) = 2
    /\ inflight = {1}
    /\ Len(results) = 1
    /\ HasError(results[1])

StepsLeft ==
    CASE pc = "start" -> 3 * Len(requests) + 3
      [] pc = "loop"  -> 3 * (Len(requests) - index) + 2
      [] pc = "send"  -> 3 * (Len(requests) - index) + 1
      [] pc = "bytes" -> 3 * (Len(requests) - index)
      [] OTHER        -> 0

C5_CaptureErrorAborts ==
    (pc = "done" /\ UrlParse(target).ok
        /\ \E i \in DOMAIN requests : CaptureError(requests[i]))
    => (FailureReturned /\ sent = << >>)

\* C5, amended: a captured URL that does not parse or an invalid method does
\* not abort the session.  replay never returns a failure on account of the
\* capture; that request alone is not issued and is recorded as a failed
\* result with status 0; every request of the capture that can be sent is
\* still issued.
C5_CaptureErrorIsolated ==
    /\ FailureReturned =>
         Unwrap(returned).err \in
             { "Invalid target URL", "Failed to build HTTP client" }
    /\ SessionReturned =>
         \A i \in DOMAIN requests :
            /\ CaptureError(requests[i]) =>
                 /\ HasError(Session.results[i])
                 /\ Session.results[i].status = 0
                 /\ (i - 1) \notin SentIndices
            /\ PrepareRequest(requests[i], target_url, config).ok
                   => (i - 1) \in SentIndices

\* A session over a capture whose first request has an invalid method (or
\* URL) and whose second request was sent all the same.
C5_Witness ==
    /\ SessionReturned
    /\ Len(requests) = 2
    /\ CaptureError(requests[1])
    /\ HasError(Session.results[1])
    /\ SentIndices = {1}

\* C6: when the target does not parse, replay returns the invalid-target
\* failure and nothing else: no request is issued, no result is recorded,
\* no session is returned.
C6_InvalidTargetFailsFast ==
    ~UrlParse(target).ok =>
        /\ sent = << >>
        /\ inflight = {}
        /\ results = << >>
        /\ pc \in { "start", "done" }
        /\ pc = "done" => returned = Some(Err("Invalid target URL"))
        /\ pc = "start" => returned = None

\* replay has returned for an unparseable target and a non-empty capture.
C6_Witness ==
    /\ ~UrlParse(target).ok
    /\ requests # << >>
    /\ pc = "done"
    /\ FailureReturned

\* C7: a result of a returned session that carries an error has status 0,
\* no headers and status_match false; one without an error has status_match
\* true when no status is expected, and else exactly when the expected
\* status is the observed one.
C7_ResultShapes ==
    SessionReturned =>
        \A i \in DOMAIN Session.results :
            LET r == Session.results[i] IN
            /\ HasError(r) =>
                 /\ r.status = 0
                 /\ r.headers = << >>
                 /\ r.status_match = FALSE
            /\ ~HasError(r) =>
                 /\ r.expected_status = None => r.status_match = TRUE
                 /\ r.expected_status # None =>
                      r.status_match = (r.expected_status = Some(r.status))

\* A session with a failed result, a result with no expected status, and a
\* result whose observed status is not the expected one.
C7_Witness ==
    /\ SessionReturned
    /\ \E i \in DOMAIN Session.results : HasError(Session.results[i])
    /\ \E i \in DOMAIN Session.results :
         /\ ~HasError(Session.results[i])
         /\ Session.results[i].expected_status = Some(200)
         /\ Session.results[i].status = 403

\* C8: in a returned session, successful counts the results without error,
\* failed those with an error, status_mismatches those without error whose
\* status_match is false; so status_mismatches is at most successful.
C8_Tallies ==
    SessionReturned =>
        LET rs == Session.results IN
        /\ Session.successful = Cardinality({ i \in DOMAIN rs : ~HasError(rs[i]) })
        /\ Session.failed = Cardinality({ i \in DOMAIN rs : HasError(rs[i]) })
        /\ Session.status_mismatches =
             Cardinality({ i \in DOMAIN rs : ~HasError(rs[i]) /\ ~rs[i].status_match })
        /\ Session.status_mismatches <= Session.successful

\* A session with a failed result (status_match false) and a successful
\* result whose status does not match.
C8_Witness ==
    /\ SessionReturned
    /\ Session.failed = 1
    /\ Session.successful = 1
    /\ Session.status_mismatches = 1

(***************************************************************************)
(* Properties of rewrite_url.                                              *)
(***************************************************************************)
RewriteCalled == fn = "rewrite_url" /\ ret # None

\* C9: for an original and a target that both parse, rewrite_url returns a
\* URL with the target's scheme, host and port and the original's path,
\* query and fragment.
C9_RewriteOntoTarget ==
    (RewriteCalled /\ UrlParse(args.original).ok) =>
        /\ Unwrap(ret).ok
        /\ UrlParse(Unwrap(ret).val).ok
        /\ LET rewritten == UrlParse(Unwrap(ret).val).val
               original  == UrlParse(args.original).val
           IN  /\ rewritten.scheme = args.target.scheme
               /\ rewritten.host = args.target.host
               /\ rewritten.port = args.target.port
               /\ rewritten.path = original.path
               /\ rewritten.query = original.query
               /\ rewritten.fragment = original.fragment

(***************************************************************************)
(* Properties of apply_mutations.                                          *)
(***************************************************************************)
MutateCalled == fn = "apply_mutations" /\ ret # None

NamedCookie(header) == to_lowercase(header[1]) = NameCookie

\* C10, as claimed: with strip_cookies set, the list apply_mutations returns
\* has no header named Cookie, whatever the mutation list.
C10_NoCookieWhenStripped ==
    (MutateCalled /\ args.strip_cookies) =>
        \A i \in DOMAIN Unwrap(ret) : ~NamedCookie(Unwrap(ret)[i])

\* C10, amended: with strip_cookies set, no Cookie header of the input is in
\* the list apply_mutations returns: every header named Cookie in it is an
\* entry of the mutation list with a non-empty value, so without such a
\* mutation the list has no Cookie header.
C10_StrippedCookiesOnlyFromMutations ==
    (MutateCalled /\ args.strip_cookies) =>
        \A i \in DOMAIN Unwrap(ret) :
            NamedCookie(Unwrap(ret)[i]) =>
                \E j \in DOMAIN args.mutations :
                    /\ args.mutations[j] = Unwrap(ret)[i]
                    /\ args.mutations[j][2] # ""

\* strip_cookies is set, the input holds a Cookie header and the mutations
\* touch no cookie: the output has no Cookie header.
C10_Witness ==
    /\ MutateCalled
    /\ args.strip_cookies
    /\ \E i \in DOMAIN args.headers : NamedCookie(args.headers[i])
    /\ args.mutations # << >>
    /\ \A j \in DOMAIN args.mutations : ~NamedCookie(args.mutations[j])
    /\ \A i \in DOMAIN Unwrap(ret) : ~NamedCookie(Unwrap(ret)[i])

(***************************************************************************)
(* Properties of the header mutator's mutation loop.                       *)
(***************************************************************************)
\* The positions of the headers of a list that bear a name, whatever the
\* case of its ASCII letters.
Named(headers, name) ==
    { i \in DOMAIN headers : eq_ignore_ascii_case(headers[i][1], name) }

FirstNamed(headers, name) ==
    CHOOSE i \in Named(headers, name) : \A j \in Named(headers, name) : i <= j

\* The headers of the input that pass the filter, written from the three
\* names the filter drops.
FilteredInput ==
    SelectSeq(args.headers,
              LAMBDA h : /\ to_lowercase(h[1]) \notin { NameHost, NameContentLength }
                         /\ ~(args.strip_cookies /\ to_lowercase(h[1]) = NameCookie))

\* C11: the last mutation on a name wins.  When it has an empty value the
\* list apply_mutations returns has no header of that name; when it has a
\* non-empty value v, the first header of that name in the list has value v.
\* A single non-empty mutation replaces the first header of its name that
\* passed the filter and leaves the others alone, or is appended when no
\* header of its name passed.
C11_LastMutationWins ==
    MutateCalled =>
        LET out == Unwrap(ret) IN
        /\ \A j \in DOMAIN args.mutations :
               (\A k \in DOMAIN args.mutations :
                    k > j => ~eq_ignore_ascii_case(args.mutations[k][1],
                                                   args.mutations[j][1])) =>
                   LET name  == args.mutations[j][1]
                       value == args.mutations[j][2]
                   IN  IF value = ""
                       THEN Named(out, name) = {}
                       ELSE /\ Named(out, name) # {}
                            /\ out[FirstNamed(out, name)][2] = value
        /\ (Len(args.mutations) = 1 /\ args.mutations[1][2] # "") =>
               LET name == args.mutations[1][1] IN
               IF Named(FilteredInput, name) = {}
               THEN out = Append(FilteredInput, args.mutations[1])
               ELSE /\ Len(out) = Len(FilteredInput)
                    /\ \A i \in DOMAIN out :
                           out[i] = IF i = FirstNamed(FilteredInput, name)
                                    THEN args.mutations[1]
                                    ELSE FilteredInput[i]

\* Two mutations on one name with different values, the last one non-empty,
\* on an input that already has a header of that name: the header is in the
\* output with the last value, at the front of the headers of its name.
C11_Witness ==
    /\ MutateCalled
    /\ Len(args.mutations) = 2
    /\ eq_ignore_ascii_case(args.mutations[1][1], args.mutations[2][1])
    /\ args.mutations[1][2] # args.mutations[2][2]
    /\ args.mutations[2][2] # ""
    /\ Named(FilteredInput, args.mutations[2][1]) # {}
    /\ Named(Unwrap(ret), args.mutations[2][1]) # {}
    /\ Unwrap(ret)[FirstNamed(Unwrap(ret), args.mutations[2][1])][2] = args.mutations[2][2]

(***************************************************************************)
(* The diff engine (src/src/diff.rs): the WAF classifier, the header       *)
(* comparison and the pairing of two replay sessions.                      *)
(*                                                                         *)
(* A String built by format! is a record of the format string and its      *)
(* arguments; a HeaderDiffType is the name of its variant.                 *)
(***************************************************************************)
\* "x-waf-action"
NameXWafAction ==
    << "x", "-", "w", "a", "f", "-",
       "a", "c", "t", "i", "o", "n" >>

\* "x-waf-rule"
NameXWafRule == << "x", "-", "w", "a", "f", "-", "r", "u", "l", "e" >>

\* "x-waf-score"
NameXWafScore == << "x", "-", "w", "a", "f", "-", "s", "c", "o", "r", "e" >>

\* "x-blocked"
NameXBlocked == << "x", "-", "b", "l", "o", "c", "k", "e", "d" >>

\* "x-blocked-by"
NameXBlockedBy ==
    << "x", "-", "b", "l", "o", "c",
       "k", "e", "d", "-", "b", "y" >>

\* "server"
NameServer == << "s", "e", "r", "v", "e", "r" >>


\* const COMPARE_HEADERS: &[&str]
COMPARE_HEADERS ==
    << NameXWafAction,
       NameXWafRule,
       NameXWafScore,
       \* "cf-ray"
       << "c", "f", "-", "r", "a", "y" >>,
       \* "cf-cache-status"
       << "c", "f", "-", "c", "a", "c", "h", "e", "-", "s", "t", "a", "t", "u", "s" >>,
       \* "x-cache"
       << "x", "-", "c", "a", "c", "h", "e" >>,
       \* "x-cache-status"
       << "x", "-", "c", "a", "c", "h", "e", "-", "s", "t", "a", "t", "u", "s" >>,
       NameXBlocked,
       NameXBlockedBy,
       NameServer,
       \* "x-frame-options"
       << "x", "-", "f", "r", "a", "m", "e", "-", "o", "p", "t", "i", "o", "n", "s" >>,
       \* "content-security-policy"
       << "c", "o", "n", "t", "e", "n", "t", "-", "s", "e", "c", "u", "r", "i", "t", "y",
          "-", "p", "o", "l", "i", "c", "y" >>,
       \* "strict-transport-security"
       << "s", "t", "r", "i", "c", "t", "-", "t", "r", "a", "n", "s", "p", "o", "r", "t",
          "-", "s", "e", "c", "u", "r", "i", "t", "y" >>,
       \* "x-content-type-options"
       << "x", "-", "c", "o", "n", "t", "e", "n", "t", "-", "t", "y", "p", "e",
          "-", "o", "p", "t", "i", "o", "n", "s" >> >>

\* "x-waf-"
PrefixXWaf == << "x", "-", "w", "a", "f", "-" >>

\* "x-blocked"
PrefixXBlocked == << "x", "-", "b", "l", "o", "c", "k", "e", "d" >>

\* str::starts_with
starts_with(s, prefix) ==
    /\ Len(s) >= Len(prefix)
    /\ SubSeq(s, 1, Len(prefix)) = prefix

\* A mutant of find_header that compares the names exactly.
find_headerExactCase(headers, name) ==
    LET hits == { i \in DOMAIN headers : headers[i][1] = name }
    IN  IF hits = {} THEN None
        ELSE Some(headers[CHOOSE i \in hits : \A j \in hits : i <= j][2])

\* fn find_header(headers, name) -> Option<String>
find_header(headers, name) ==
    LET hits == { i \in DOMAIN headers : eq_ignore_ascii_case(headers[i][1], name) }
    IN  IF hits = {} THEN None
        ELSE Some(headers[CHOOSE i \in hits : \A j \in hits : i <= j][2])

\* A mutant of is_waf_block that looks at the status alone.
is_waf_blockStatusOnly(result) ==
    result.status \in {403, 429, 503}

\* fn is_waf_block(result) -> bool
is_waf_block(result) ==
    IF result.status \in {403, 429, 503}
    THEN TRUE
    ELSE \E i \in DOMAIN result.headers :
             LET name_lower == to_lowercase(result.headers[i][1]) IN
             \/ starts_with(name_lower, PrefixXWaf)
             \/ starts_with(name_lower, PrefixXBlocked)

\* let reason_headers = [...]
reason_headers == << NameXWafRule, NameXWafAction, NameXBlockedBy, NameXBlocked >>

\* format!("{}: {}", header, value)
FormatHeaderReason(header, value) ==
    [ fmt |-> "{}: {}", with |-> << header, value >> ]

\* format!("HTTP {}", result.status)
FormatStatusReason(status) ==
    [ fmt |-> "HTTP {}", with |-> << status >> ]

\* fn get_waf_reason(result) -> Option<String>
get_waf_reason(result) ==
    LET found == { i \in DOMAIN reason_headers :
                       find_header(result.headers, reason_headers[i]) # None }
    IN  IF found # {}
        THEN LET i == CHOOSE i \in found : \A j \in found : i <= j IN
             Some(FormatHeaderReason(reason_headers[i],
                                     Unwrap(find_header(result.headers, reason_headers[i]))))
        ELSE IF result.status \in {403, 429, 503}
        THEN Some(FormatStatusReason(result.status))
        ELSE None

\* A mutant of detect_waf_diff that reports a difference only when the right
\* side is the blocked one.
detect_waf_diffRightOnly(left, right) ==
    IF is_waf_block(left) \/ ~is_waf_block(right)
    THEN None
    ELSE Some([ left_blocked  |-> is_waf_block(left),
                right_blocked |-> is_waf_block(right),
                left_reason   |-> get_waf_reason(left),
                right_reason  |-> get_waf_reason(right) ])

\* fn detect_waf_diff(left, right) -> Option<WafDiff>
detect_waf_diff(left, right) ==
    LET left_blocked  == is_waf_block(left)
        right_blocked == is_waf_block(right)
    IN  IF left_blocked = right_blocked
        THEN None
        ELSE Some([ left_blocked  |-> left_blocked,
                    right_blocked |-> right_blocked,
                    left_reason   |-> get_waf_reason(left),
                    right_reason  |-> get_waf_reason(right) ])

\* One turn of `for header_name in COMPARE_HEADERS`: the HeaderDiffs it pushes.
DiffHeader(left, right, header_name) ==
    LET left_val  == find_header(left, header_name)
        right_val == find_header(right, header_name)
    IN  IF left_val # None /\ right_val # None
        THEN IF Unwrap(left_val) # Unwrap(right_val)
             THEN << [ name      |-> header_name,
                       left      |-> left_val,
                       right     |-> right_val,
                       diff_type |-> "Changed" ] >>
             ELSE << >>
        ELSE IF left_val # None
        THEN << [ name      |-> header_name,
                  left      |-> left_val,
                  right     |-> None,
                  diff_type |-> "Removed" ] >>
        ELSE IF right_val # None
        THEN << [ name      |-> header_name,
                  left      |-> None,
                  right     |-> right_val,
                  diff_type |-> "Added" ] >>
        ELSE << >>

RECURSIVE DiffHeadersFrom(_, _, _)
DiffHeadersFrom(left, right, k) ==
    IF k > Len(COMPARE_HEADERS)
    THEN << >>
    ELSE DiffHeader(left, right, COMPARE_HEADERS[k]) \o DiffHeadersFrom(left, right, k + 1)

\* fn diff_headers(left, right) -> Vec<HeaderDiff>
diff_headers(left, right) == DiffHeadersFrom(left, right, 1)

\* A mutant of diff_results that also reports two outcomes whose header lists
\* differ outside the comparison set.
diff_resultsAnyHeader(left, right) ==
    LET status_diff  == IF left.status # right.status
                        THEN Some([ left |-> left.status, right |-> right.status ])
                        ELSE None
        header_diffs == diff_headers(left.headers, right.headers)
        waf_diff     == detect_waf_diff(left, right)
    IN  IF status_diff = None /\ left.headers = right.headers /\ waf_diff = None
        THEN None
        ELSE Some([ request_index |-> left.request_index,
                    method        |-> left.method,
                    url           |-> left.url,
                    status_diff   |-> status_diff,
                    header_diffs  |-> header_diffs,
                    waf_diff      |-> waf_diff ])

\* fn diff_results(left, right) -> Option<RequestDiff>
diff_results(left, right) ==
    LET status_diff  == IF left.status # right.status
                        THEN Some([ left |-> left.status, right |-> right.status ])
                        ELSE None
        header_diffs == diff_headers(left.headers, right.headers)
        waf_diff     == detect_waf_diff(left, right)
    IN  IF status_diff = None /\ header_diffs = << >> /\ waf_diff = None
        THEN None
        ELSE Some([ request_index |-> left.request_index,
                    method        |-> left.method,
                    url           |-> left.url,
                    status_diff   |-> status_diff,
                    header_diffs  |-> header_diffs,
                    waf_diff      |-> waf_diff ])

(***************************************************************************)
(* The WAF classifier applied to one outcome.                              *)
(***************************************************************************)
\* fn make_result(index, status, headers) -> ReplayResult
make_result(idx, status, headers) ==
    [ request_index   |-> idx,
      method          |-> "GET",
      url             |-> "https://example.com/test",
      status          |-> status,
      headers         |-> headers,
      body_size       |-> 0,
      duration_ms     |-> 100,
      expected_status |-> Some(200),
      status_match    |-> status = 200,
      error           |-> None ]

\* "X-WAF-Action"
NameXWafActionCapital ==
    << "X", "-", "W", "A", "F", "-", "A", "c", "t", "i", "o", "n" >>

\* "X-Bloc<U+212A>ed", which to_lowercase folds to "x-blocked"
NameXBlockedKelvin == << "X", "-", "B", "l", "o", "c", KelvinSign, "e", "d" >>

WafStatuses == {200, 403, 429, 500, 503}

WafHeaderPairs ==
    { << name, value >> :
          name \in { NameXWafRule, NameXWafActionCapital, NameXBlockedBy, NameXBlocked,
                     NameXBlockedKelvin, NameXWafScore, NameServer },
          value \in { "942100", "deny" } }

InitWaf ==
    /\ IdleReplay
    /\ fn = "is_waf_block"
    /\ \E status \in WafStatuses, headers \in SeqsUpTo(WafHeaderPairs, MaxHeaders) :
           args = [ result |-> make_result(0, status, headers) ]
    /\ ret = None

\* The classifier's two functions, applied to one outcome as detect_waf_diff
\* applies them to each side.
CallWaf ==
    /\ fn = "is_waf_block"
    /\ ret = None
    /\ ret' = Some([ blocked |-> is_waf_block(args.result),
                     reason  |-> get_waf_reason(args.result) ])
    /\ UNCHANGED << fn, args >>
    /\ UNCHANGED replayVars

NextWaf == CallWaf

SpecWaf == InitWaf /\ [][NextWaf]_vars

WafCalled == fn = "is_waf_block" /\ ret # None

\* Some header of the outcome has a name that, lower-cased, begins with
\* x-waf- or x-blocked.
HasWafHeader(result) ==
    \E i \in DOMAIN result.headers :
        LET lower == to_lowercase(result.headers[i][1]) IN
        \E n \in 0..Len(lower) : SubSeq(lower, 1, n) \in { PrefixXWaf, PrefixXBlocked }

\* C12: the verdict is blocked exactly when the status is 403, 429 or 503,
\* or one header name at least begins, whatever its case, with x-waf- or
\* x-blocked.
C12_BlockedVerdict ==
    WafCalled =>
        (Unwrap(ret).blocked <=>
            \/ args.result.status \in {403, 429, 503}
            \/ HasWafHeader(args.result))

\* An outcome of status 200 is blocked for a header alone, written with
\* capitals, and an outcome of status 500 with a server header is not blocked.
C12_Witness ==
    /\ WafCalled
    /\ \/ /\ args.result.status = 200
          /\ Len(args.result.headers) = 1
          /\ args.result.headers[1][1] = NameXWafActionCapital
          /\ Unwrap(ret).blocked
       \/ /\ args.result.status = 500
          /\ Len(args.result.headers) = 1
          /\ args.result.headers[1][1] = NameServer
          /\ ~Unwrap(ret).blocked

\* C13: the reason is the first present header of the priority list x-waf-rule,
\* x-waf-action, x-blocked-by, x-blocked, formatted as its name and value;
\* when none is present and the outcome is blocked it is "HTTP <status>"; it
\* is absent when the outcome is not blocked.  So every blocked outcome has a
\* reason and no other outcome has one.
C13_WafReason ==
    WafCalled =>
        LET result  == args.result
            present == { k \in DOMAIN reason_headers :
                             Named(result.headers, reason_headers[k]) # {} }
            first   == CHOOSE k \in present : \A j \in present : k <= j
        IN  /\ present # {} =>
                   Unwrap(ret).reason =
                       Some(FormatHeaderReason(
                           reason_headers[first],
                           result.headers[FirstNamed(result.headers, reason_headers[first])][2]))
            /\ (present = {} /\ Unwrap(ret).blocked) =>
                   Unwrap(ret).reason = Some(FormatStatusReason(result.status))
            /\ ~Unwrap(ret).blocked => Unwrap(ret).reason = None
            /\ Unwrap(ret).blocked <=> Unwrap(ret).reason # None

(***************************************************************************)
(* diff_results applied to two outcomes.                                   *)
(***************************************************************************)
\* "Server"
NameServerCapital == << "S", "e", "r", "v", "e", "r" >>

\* "x-waf-engine", a WAF signal outside the comparison set
NameXWafEngine == << "x", "-", "w", "a", "f", "-", "e", "n", "g", "i", "n", "e" >>

\* "content-type", outside the comparison set
NameContentType == << "c", "o", "n", "t", "e", "n", "t", "-", "t", "y", "p", "e" >>

DiffStatuses == {200, 403}

DiffHeaderPairs ==
    { << NameXWafRule, "942100" >>,
      << NameXWafEngine, "on" >>,
      << NameServer, "nginx" >>,
      << NameServerCapital, "nginx" >>,
      << NameServer, "apache" >>,
      << NameContentType, "application/json" >> }

InitDiffResults ==
    /\ IdleReplay
    /\ fn = "diff_results"
    /\ LET pairs == DiffHeaderPairs \ { << NameServerCapital, "nginx" >> } IN
       \E left_status \in DiffStatuses, right_status \in DiffStatuses,
          left_headers \in SeqsUpTo(pairs, MaxHeaders),
          right_headers \in SeqsUpTo(pairs, MaxHeaders) :
           args = [ left  |-> make_result(0, left_status, left_headers),
                    right |-> make_result(0, right_status, right_headers) ]
    /\ ret = None

CallDiffResults ==
    /\ fn = "diff_results"
    /\ ret = None
    /\ ret' = Some(diff_results(args.left, args.right))
    /\ UNCHANGED << fn, args >>
    /\ UNCHANGED replayVars

NextDiffResults == CallDiffResults

SpecDiffResults == InitDiffResults /\ [][NextDiffResults]_vars

DiffResultsCalled == fn = "diff_results" /\ ret # None

\* The Option<RequestDiff> diff_results returned.
RequestDiffReturned == Unwrap(ret)

\* The value a header list gives a name: that of the first header bearing it.
ValueOf(headers, name) ==
    IF Named(headers, name) = {}
    THEN None
    ELSE Some(headers[FirstNamed(headers, name)][2])

\* Two header lists give every name of the comparison set the same value, or
\* both give it none.
SameComparedHeaders(left, right) ==
    \A k \in DOMAIN COMPARE_HEADERS :
        ValueOf(left, COMPARE_HEADERS[k]) = ValueOf(right, COMPARE_HEADERS[k])

\* The verdict of the classifier, from its definition in section 4.5.
Blocked(result) ==
    \/ result.status \in {403, 429, 503}
    \/ HasWafHeader(result)

\* C14, as claimed: two outcomes with the same status and the same value, or
\* the same absence, for every header of the comparison set yield no
\* RequestDiff, whatever other headers they carry.
C14_NoDiffWhenComparedEqual ==
    ( /\ DiffResultsCalled
      /\ args.left.status = args.right.status
      /\ SameComparedHeaders(args.left.headers, args.right.headers) )
        => RequestDiffReturned = None

\* C14, amended: two outcomes with the same status, the same value or the
\* same absence for every header of the comparison set, and the same blocked
\* verdict yield no RequestDiff, whatever other headers they carry.
C14_NoDiffWhenComparedAndVerdictEqual ==
    ( /\ DiffResultsCalled
      /\ args.left.status = args.right.status
      /\ SameComparedHeaders(args.left.headers, args.right.headers)
      /\ Blocked(args.left) = Blocked(args.right) )
        => RequestDiffReturned = None

\* Two outcomes with different header lists, equal on the comparison set and
\* in status and verdict, one of them carrying a WAF signal outside the set:
\* no RequestDiff.
C14_Witness ==
    /\ DiffResultsCalled
    /\ args.left.status = args.right.status
    /\ args.left.headers # args.right.headers
    /\ SameComparedHeaders(args.left.headers, args.right.headers)
    /\ Blocked(args.left) = Blocked(args.right)
    /\ \E i \in DOMAIN args.left.headers : args.left.headers[i][1] = NameXWafEngine
    /\ \A i \in DOMAIN args.right.headers : args.right.headers[i][1] # NameXWafEngine
    /\ RequestDiffReturned = None

(***************************************************************************)
(* diff_sessions: the pairing of two sessions by index.                    *)
(***************************************************************************)
\* slice::get(i)
Get(v, i) == IF i + 1 \in DOMAIN v THEN Some(v[i + 1]) ELSE None

\* A mutant of OneSidedDiff that numbers the index from one.
OneSidedDiffOneBased(i, present, left_status, right_status) ==
    [ request_index |-> i + 1,
      method        |-> present.method,
      url           |-> present.url,
      status_diff   |-> Some([ left |-> left_status, right |-> right_status ]),
      header_diffs  |-> << >>,
      waf_diff      |-> None ]

\* The RequestDiff pushed for an index only one side has.
OneSidedDiff(i, present, left_status, right_status) ==
    [ request_index |-> i,
      method        |-> present.method,
      url           |-> present.url,
      status_diff   |-> Some([ left |-> left_status, right |-> right_status ]),
      header_diffs  |-> << >>,
      waf_diff      |-> None ]

\* A mutant of DiffStep that does not count a pair without differences.
DiffStepForgetsIdentical(left, right, i, acc) ==
    LET left_result  == Get(left.results, i)
        right_result == Get(right.results, i)
    IN  IF left_result # None /\ right_result # None
        THEN LET diff == diff_results(Unwrap(left_result), Unwrap(right_result)) IN
             IF diff # None
             THEN [ acc EXCEPT
                      !.status_diffs_count =
                          IF Unwrap(diff).status_diff # None THEN @ + 1 ELSE @,
                      !.header_diffs_count =
                          IF Unwrap(diff).header_diffs # << >> THEN @ + 1 ELSE @,
                      !.waf_diffs_count =
                          IF Unwrap(diff).waf_diff # None THEN @ + 1 ELSE @,
                      !.different = @ + 1,
                      !.diffs = Append(@, Unwrap(diff)) ]
             ELSE acc
        ELSE IF left_result # None
        THEN [ acc EXCEPT
                 !.different = @ + 1,
                 !.diffs = Append(@, OneSidedDiff(i, Unwrap(left_result),
                                                  Unwrap(left_result).status, 0)) ]
        ELSE IF right_result # None
        THEN [ acc EXCEPT
                 !.different = @ + 1,
                 !.diffs = Append(@, OneSidedDiff(i, Unwrap(right_result),
                                                  0, Unwrap(right_result).status)) ]
        ELSE acc

\* A mutant of DiffStep that takes an index only one side has for an
\* identical pair.
DiffStepMissingIsIdentical(left, right, i, acc) ==
    LET left_result  == Get(left.results, i)
        right_result == Get(right.results, i)
    IN  IF left_result # None /\ right_result # None
        THEN LET diff == diff_results(Unwrap(left_result), Unwrap(right_result)) IN
             IF diff # None
             THEN [ acc EXCEPT
                      !.status_diffs_count =
                          IF Unwrap(diff).status_diff # None THEN @ + 1 ELSE @,
                      !.header_diffs_count =
                          IF Unwrap(diff).header_diffs # << >> THEN @ + 1 ELSE @,
                      !.waf_diffs_count =
                          IF Unwrap(diff).waf_diff # None THEN @ + 1 ELSE @,
                      !.different = @ + 1,
                      !.diffs = Append(@, Unwrap(diff)) ]
             ELSE [ acc EXCEPT !.identical = @ + 1 ]
        ELSE IF left_result # None
        THEN [ acc EXCEPT !.identical = @ + 1 ]
        ELSE IF right_result # None
        THEN [ acc EXCEPT !.identical = @ + 1 ]
        ELSE acc

\* One turn of `for i in 0..max_len` on the function's mutable locals.
DiffStep(left, right, i, acc) ==
    LET left_result  == Get(left.results, i)
        right_result == Get(right.results, i)
    IN  IF left_result # None /\ right_result # None
        THEN LET diff == diff_results(Unwrap(left_result), Unwrap(right_result)) IN
             IF diff # None
             THEN [ acc EXCEPT
                      !.status_diffs_count =
                          IF Unwrap(diff).status_diff # None THEN @ + 1 ELSE @,
                      !.header_diffs_count =
                          IF Unwrap(diff).header_diffs # << >> THEN @ + 1 ELSE @,
                      !.waf_diffs_count =
                          IF Unwrap(diff).waf_diff # None THEN @ + 1 ELSE @,
                      !.different = @ + 1,
                      !.diffs = Append(@, Unwrap(diff)) ]
             ELSE [ acc EXCEPT !.identical = @ + 1 ]
        ELSE IF left_result # None
        THEN [ acc EXCEPT
                 !.different = @ + 1,
                 !.diffs = Append(@, OneSidedDiff(i, Unwrap(left_result),
                                                  Unwrap(left_result).status, 0)) ]
        ELSE IF right_result # None
        THEN [ acc EXCEPT
                 !.different = @ + 1,
                 !.diffs = Append(@, OneSidedDiff(i, Unwrap(right_result),
                                                  0, Unwrap(right_result).status)) ]
        ELSE acc

RECURSIVE DiffLoop(_, _, _, _, _)
DiffLoop(left, right, i, max_len, acc) ==
    IF i >= max_len
    THEN acc
    ELSE DiffLoop(left, right, i + 1, max_len, DiffStep(left, right, i, acc))

\* fn diff_sessions(left, right) -> DiffSummary
diff_sessions(left, right) ==
    LET max_len == IF Len(left.results) >= Len(right.results)
                   THEN Len(left.results)
                   ELSE Len(right.results)
        acc     == DiffLoop(left, right, 0, max_len,
                            [ diffs              |-> << >>,
                              identical          |-> 0,
                              different          |-> 0,
                              status_diffs_count |-> 0,
                              header_diffs_count |-> 0,
                              waf_diffs_count    |-> 0 ])
    IN  [ left_target    |-> left.target,
          right_target   |-> right.target,
          total_requests |-> max_len,
          identical      |-> acc.identical,
          different      |-> acc.different,
          status_diffs   |-> acc.status_diffs_count,
          header_diffs   |-> acc.header_diffs_count,
          waf_diffs      |-> acc.waf_diffs_count,
          diffs          |-> acc.diffs ]

(***************************************************************************)
(* diff_sessions applied to two sessions.  The sessions are those replay   *)
(* builds: the result at position i has request_index i, a failed request  *)
(* has status 0, no headers and an error, and the tallies count the        *)
(* results.                                                                *)
(***************************************************************************)
\* The ReplayResult of a request that failed.
failed_result(idx) ==
    [ request_index   |-> idx,
      method          |-> "GET",
      url             |-> "https://example.com/test",
      status          |-> 0,
      headers         |-> << >>,
      body_size       |-> 0,
      duration_ms     |-> 0,
      expected_status |-> Some(200),
      status_match    |-> FALSE,
      error           |-> Some("error sending request") ]

\* The outcomes a request can have in the sessions compared.
SessionOutcomes(idx) ==
    { make_result(idx, 200, << >>),
      make_result(idx, 200, << << NameServer, "nginx" >> >>),
      make_result(idx, 403, << << NameXWafRule, "942100" >> >>),
      failed_result(idx) }

SessionResults ==
    UNION { { r \in [1..n -> UNION { SessionOutcomes(i) : i \in 0..(n - 1) }] :
                \A k \in 1..n : r[k] \in SessionOutcomes(k - 1) } :
            n \in 0..MaxRequests }

\* The ReplaySession replay returns for a target and its results.
SessionOf(session_target, session_results) ==
    [ target            |-> session_target,
      timestamp         |-> "t1",
      total_requests    |-> Len(session_results),
      successful        |->
          Cardinality({ k \in DOMAIN session_results : session_results[k].error = None }),
      failed            |->
          Cardinality({ k \in DOMAIN session_results : session_results[k].error # None }),
      status_mismatches |->
          Cardinality({ k \in DOMAIN session_results :
                            /\ session_results[k].error = None
                            /\ ~session_results[k].status_match }),
      results           |-> session_results ]

InitDiffSessions ==
    /\ IdleReplay
    /\ fn = "diff_sessions"
    /\ \E left_results \in SessionResults, right_results \in SessionResults :
           args = [ left  |-> SessionOf(TargetStaging, left_results),
                    right |-> SessionOf(TargetStagingPort, right_results) ]
    /\ ret = None

CallDiffSessions ==
    /\ fn = "diff_sessions"
    /\ ret = None
    /\ ret' = Some(diff_sessions(args.left, args.right))
    /\ UNCHANGED << fn, args >>
    /\ UNCHANGED replayVars

NextDiffSessions == CallDiffSessions

SpecDiffSessions == InitDiffSessions /\ [][NextDiffSessions]_vars

DiffSessionsCalled == fn = "diff_sessions" /\ ret # None

\* The DiffSummary diff_sessions returned.
Summary == Unwrap(ret)

\* The status a session has at an index, 0 where it has no result.
StatusAt(session, i) ==
    IF i + 1 \in DOMAIN session.results THEN session.results[i + 1].status ELSE 0

\* C15: in every RequestDiff of the summary, also those of an index only one
\* side has, whose missing side counts as status 0, status_diff is present
\* exactly when the left status differs from the right status, and a present
\* status_diff carries two different values.
C15_StatusDiffIffDifferent ==
    DiffSessionsCalled =>
        \A k \in DOMAIN Summary.diffs :
            LET diff == Summary.diffs[k]
                i    == diff.request_index
            IN  /\ diff.status_diff # None <=>
                       StatusAt(args.left, i) # StatusAt(args.right, i)
                /\ diff.status_diff # None =>
                       Unwrap(diff.status_diff).left # Unwrap(diff.status_diff).right

\* C16: every summary, for sessions of any lengths, unequal and zero too,
\* has identical + different = total_requests, and none of status_diffs,
\* header_diffs and waf_diffs exceeds different.
C16_SummaryCounts ==
    DiffSessionsCalled =>
        /\ Summary.identical + Summary.different = Summary.total_requests
        /\ Summary.status_diffs <= Summary.different
        /\ Summary.header_diffs <= Summary.different
        /\ Summary.waf_diffs <= Summary.different

\* Sessions of unequal lengths, with an identical pair and an index only the
\* left side has.
C16_Witness ==
    /\ DiffSessionsCalled
    /\ Len(args.left.results) > Len(args.right.results)
    /\ Len(args.right.results) > 0
    /\ Summary.identical > 0
    /\ Summary.different > 0
    /\ Summary.identical + Summary.different = Summary.total_requests

\* C17: status_diffs is the number of RequestDiffs of diffs whose status_diff
\* is present, header_diffs the number whose header_diffs list is not empty,
\* waf_diffs the number whose waf_diff is present, for sessions of different
\* lengths too.
C17_CountsMatchDiffs ==
    DiffSessionsCalled =>
        /\ Summary.status_diffs =
               Cardinality({ k \in DOMAIN Summary.diffs : Summary.diffs[k].status_diff # None })
        /\ Summary.header_diffs =
               Cardinality({ k \in DOMAIN Summary.diffs : Summary.diffs[k].header_diffs # << >> })
        /\ Summary.waf_diffs =
               Cardinality({ k \in DOMAIN Summary.diffs : Summary.diffs[k].waf_diff # None })

\* The indices both sessions have, and those only one of them has.
PairedIndices ==
    { i \in 0..(Len(args.left.results) + Len(args.right.results)) :
          i < Len(args.left.results) /\ i < Len(args.right.results) }

OneSidedIndices ==
    { i \in 0..(Len(args.left.results) + Len(args.right.results)) :
          (i < Len(args.left.results)) # (i < Len(args.right.results)) }

\* C18: results are paired by index and total_requests is the greater of the
\* two lengths; every index only one side has yields a RequestDiff, counted
\* in different and never in identical, whose status_diff carries the status
\* of the side present and 0 for the missing side.
C18_PairedByIndex ==
    DiffSessionsCalled =>
        /\ Summary.total_requests >= Len(args.left.results)
        /\ Summary.total_requests >= Len(args.right.results)
        /\ Summary.total_requests \in { Len(args.left.results), Len(args.right.results) }
        /\ \A i \in PairedIndices :
               LET diff == diff_results(args.left.results[i + 1], args.right.results[i + 1])
               IN  diff # None => \E k \in DOMAIN Summary.diffs : Summary.diffs[k] = Unwrap(diff)
        /\ \A i \in OneSidedIndices :
               \E k \in DOMAIN Summary.diffs :
                   /\ Summary.diffs[k].request_index = i
                   /\ Summary.diffs[k].status_diff =
                          Some([ left  |-> StatusAt(args.left, i),
                                 right |-> StatusAt(args.right, i) ])
                   /\ \A j \in DOMAIN Summary.diffs :
                          Summary.diffs[j].request_index = i => j = k
        /\ Summary.identical =
               Cardinality({ i \in PairedIndices :
                   diff_results(args.left.results[i + 1], args.right.results[i + 1]) = None })
        /\ Summary.different =
               Cardinality(OneSidedIndices) + Cardinality({ i \in PairedIndices :
                   diff_results(args.left.results[i + 1], args.right.results[i + 1]) # None })
        /\ Len(Summary.diffs) = Summary.different

\* The right session is longer than the left one and its last result is a
\* 403: the summary has a RequestDiff for that index with status_diff (0, 403).
C18_Witness ==
    /\ DiffSessionsCalled
    /\ Len(args.left.results) < Len(args.right.results)
    /\ args.right.results[Len(args.right.results)].status = 403
    /\ Summary.total_requests = Len(args.right.results)
    /\ Summary.different > 0
    /\ Summary.diffs[Len(Summary.diffs)].request_index = Len(args.right.results) - 1
    /\ Summary.diffs[Len(Summary.diffs)].status_diff = Some([ left |-> 0, right |-> 403 ])

(***************************************************************************)
(* Properties of the WAF diff and of the header comparison.                *)
(***************************************************************************)
\* The waf_diff of the RequestDiff returned, None when there is no RequestDiff.
WafDiffReturned ==
    IF RequestDiffReturned = None
    THEN None
    ELSE Unwrap(RequestDiffReturned).waf_diff

\* A WAF diff is present exactly when the blocked verdict of the left outcome
\* differs from that of the right one, and it then carries the blocked flag
\* and the reason of each side.
WafDiffFollowsVerdict ==
    /\ WafDiffReturned # None <=> Blocked(args.left) # Blocked(args.right)
    /\ WafDiffReturned # None =>
           Unwrap(WafDiffReturned) =
               [ left_blocked  |-> Blocked(args.left),
                 right_blocked |-> Blocked(args.right),
                 left_reason   |-> get_waf_reason(args.left),
                 right_reason  |-> get_waf_reason(args.right) ]

\* The status diff (200, 403) and a WAF diff with left_blocked false and
\* right_blocked true.
StatusAndWafDiff200Vs403 ==
    /\ RequestDiffReturned # None
    /\ Unwrap(RequestDiffReturned).status_diff = Some([ left |-> 200, right |-> 403 ])
    /\ WafDiffReturned # None
    /\ ~Unwrap(WafDiffReturned).left_blocked
    /\ Unwrap(WafDiffReturned).right_blocked

\* C19, as claimed: for every pair of outcomes diff_results compares, a WAF
\* diff is present exactly when the blocked verdicts differ, and it carries
\* the blocked flag and the reason of each side; two outcomes that differ only
\* as 200 and 403 give the status diff (200, 403) and a WAF diff with
\* left_blocked false and right_blocked true.
C19_WafDiffAnd200Vs403 ==
    DiffResultsCalled =>
        /\ WafDiffFollowsVerdict
        /\ ( /\ args.left.status = 200
             /\ args.right.status = 403
             /\ args.left.headers = args.right.headers ) => StatusAndWafDiff200Vs403

\* C19, amended: for every pair of outcomes diff_results compares, a WAF diff
\* is present exactly when the blocked verdicts differ, and it carries the
\* blocked flag and the reason of each side; two outcomes that carry no
\* header beginning with x-waf- or x-blocked and differ only as 200 and 403
\* give the status diff (200, 403) and a WAF diff with left_blocked false and
\* right_blocked true.
C19_WafDiffIffVerdictDiffers ==
    DiffResultsCalled =>
        /\ WafDiffFollowsVerdict
        /\ ( /\ args.left.status = 200
             /\ args.right.status = 403
             /\ args.left.headers = args.right.headers
             /\ ~HasWafHeader(args.left) ) => StatusAndWafDiff200Vs403

\* A 200 without headers against a 403 without headers: the status diff
\* (200, 403) and a WAF diff with only the right side blocked, its reason the
\* status.
C19_Witness ==
    /\ DiffResultsCalled
    /\ args.left.status = 200
    /\ args.right.status = 403
    /\ args.left.headers = << >>
    /\ args.right.headers = << >>
    /\ RequestDiffReturned # None
    /\ Unwrap(RequestDiffReturned).status_diff = Some([ left |-> 200, right |-> 403 ])
    /\ WafDiffReturned =
           Some([ left_blocked  |-> FALSE,
                  right_blocked |-> TRUE,
                  left_reason   |-> None,
                  right_reason  |-> Some(FormatStatusReason(403)) ])

(***************************************************************************)
(* diff_headers applied to two header lists.                               *)
(***************************************************************************)
InitDiffHeaders ==
    /\ IdleReplay
    /\ fn = "diff_headers"
    /\ args \in [ left  : SeqsUpTo(DiffHeaderPairs, MaxHeaders),
                  right : SeqsUpTo(DiffHeaderPairs, MaxHeaders) ]
    /\ ret = None

CallDiffHeaders ==
    /\ fn = "diff_headers"
    /\ ret = None
    /\ ret' = Some(diff_headers(args.left, args.right))
    /\ UNCHANGED << fn, args >>
    /\ UNCHANGED replayVars

NextDiffHeaders == CallDiffHeaders

SpecDiffHeaders == InitDiffHeaders /\ [][NextDiffHeaders]_vars

DiffHeadersCalled == fn = "diff_headers" /\ ret # None

\* The HeaderDiffs diff_headers returned.
HeaderDiffsReturned == Unwrap(ret)

\* The positions of the HeaderDiffs returned for a name, and whether one of
\* them is of a type.
DiffsFor(name) ==
    { j \in DOMAIN HeaderDiffsReturned : HeaderDiffsReturned[j].name = name }

HasDiff(name, diff_type) ==
    \E j \in DiffsFor(name) : HeaderDiffsReturned[j].diff_type = diff_type

\* C20: for each name of the comparison set, matched whatever the case,
\* diff_headers reports at most one HeaderDiff: Added exactly when the header
\* is absent left and present right, Removed exactly when it is present left
\* and absent right, Changed exactly when it is present on both sides with
\* different values, and nothing when both sides agree.  No name outside the
\* comparison set is in header_diffs.
C20_HeaderDiffPerComparedName ==
    DiffHeadersCalled =>
        /\ \A k \in DOMAIN COMPARE_HEADERS :
               LET name      == COMPARE_HEADERS[k]
                   left_val  == ValueOf(args.left, name)
                   right_val == ValueOf(args.right, name)
               IN  /\ Cardinality(DiffsFor(name)) <= 1
                   /\ HasDiff(name, "Added") <=> (left_val = None /\ right_val # None)
                   /\ HasDiff(name, "Removed") <=> (left_val # None /\ right_val = None)
                   /\ HasDiff(name, "Changed") <=>
                          (left_val # None /\ right_val # None /\ left_val # right_val)
                   /\ left_val = right_val => DiffsFor(name) = {}
                   /\ \A j \in DiffsFor(name) :
                          /\ HeaderDiffsReturned[j].left = left_val
                          /\ HeaderDiffsReturned[j].right = right_val
        /\ \A j \in DOMAIN HeaderDiffsReturned :
               /\ \E k \in DOMAIN COMPARE_HEADERS :
                      HeaderDiffsReturned[j].name = COMPARE_HEADERS[k]
               /\ HeaderDiffsReturned[j].diff_type \in { "Added", "Removed", "Changed" }

\* Server: nginx and content-type on the left, server: apache on the right:
\* one HeaderDiff, Changed, for server, and none for content-type.
C20_Witness ==
    /\ DiffHeadersCalled
    /\ args.left = << << NameServerCapital, "nginx" >>,
                      << NameContentType, "application/json" >> >>
    /\ args.right = << << NameServer, "apache" >> >>
    /\ HeaderDiffsReturned = << [ name      |-> NameServer,
                                  left      |-> Some("nginx"),
                                  right     |-> Some("apache"),
                                  diff_type |-> "Changed" ] >>

\* C21: for two sessions whose result at position i has request_index i, the
\* diffs list has exactly `different` entries, in strictly increasing
\* request_index order; the request_index of each entry is the index of the
\* pair it describes, and each entry has at least one non-empty field among
\* status_diff, header_diffs and waf_diff.
C21_DiffsListIndexed ==
    ( /\ DiffSessionsCalled
      /\ \A k \in DOMAIN args.left.results : args.left.results[k].request_index = k - 1
      /\ \A k \in DOMAIN args.right.results : args.right.results[k].request_index = k - 1 )
        =>
        /\ Len(Summary.diffs) = Summary.different
        /\ \A j, k \in DOMAIN Summary.diffs :
               j < k => Summary.diffs[j].request_index < Summary.diffs[k].request_index
        /\ \A k \in DOMAIN Summary.diffs :
               LET diff == Summary.diffs[k]
                   i    == diff.request_index
               IN  /\ i \in PairedIndices \union OneSidedIndices
                   /\ i \in PairedIndices =>
                          Some(diff) = diff_results(args.left.results[i + 1],
                                                    args.right.results[i + 1])
                   /\ i \in OneSidedIndices =>
                          LET present == IF i < Len(args.left.results)
                                         THEN args.left.results[i + 1]
                                         ELSE args.right.results[i + 1]
                          IN  /\ diff.method = present.method
                              /\ diff.url = present.url
                              /\ diff.status_diff =
                                     Some([ left  |-> StatusAt(args.left, i),
                                            right |-> StatusAt(args.right, i) ])
                   /\ \/ diff.status_diff # None
                      \/ diff.header_diffs # << >>
                      \/ diff.waf_diff # None

\* The first pair differs in a header only and the second index is a failed
\* request only the left side has: two entries, of request_index 0 and 1, the
\* first with a header diff and no status diff, the second with the status
\* diff of the one-sided index.
C21_Witness ==
    /\ DiffSessionsCalled
    /\ Len(args.left.results) = 2
    /\ Len(args.right.results) = 1
    /\ args.left.results[2].error # None
    /\ Summary.different = 2
    /\ Len(Summary.diffs) = 2
    /\ Summary.diffs[1].request_index = 0
    /\ Summary.diffs[1].status_diff = None
    /\ Summary.diffs[1].header_diffs # << >>
    /\ Summary.diffs[2].request_index = 1
    /\ Summary.diffs[2].status_diff # None
    /\ Summary.diffs[2].header_diffs = << >>

====
